---- MODULE Spec2Model ----
(***************************************************************************)
(* Model of github-pr-report: the per-author search fan-out, the per-PR    *)
(* enrichment pipeline (src/services/github.ts) and the summary            *)
(* aggregation of the Excel export (src/services/excel.ts).                *)
(*                                                                         *)
(* JavaScript strings that the code inspects character by character        *)
(* (branch names, file names, URLs, repository names) are sequences of     *)
(* one-character strings.  Strings that are only compared for equality     *)
(* (logins, titles) are TLA+ strings.  An optional field (`x?: T`) is the  *)
(* empty sequence when undefined and <<v>> when it holds v.                *)
(***************************************************************************)
EXTENDS Integers, Sequences, FiniteSets, TLC

\* ------------------------------------------------------------ bounds
\* Longest file list a files response carries.
MaxFiles == 2
\* Most items a search response carries for one author.
MaxItems == 1
\* Longest record list handed to exportToExcel in SpecAgg.
MaxRecs == 7

\* ------------------------------------------------------------ optional values
None == << >>

Some(v) == << v >>

IsSome(o) == o # << >>

Val(o) == o[1]

\* `x || 0` on an optional number
OrZero(o) == IF IsSome(o) THEN Val(o) ELSE 0

\* ------------------------------------------------------------ strings
\* The cased letters up to U+00FF, the characters a string here is made of:
\* a-z and the Latin-1 letters U+00E0-U+00FE (without the division sign),
\* each at the position of its upper-case letter in UpperAlphabet.
LowerAlphabet ==
  <<"a","b","c","d","e","f","g","h","i","j","k","l","m","n","o","p","q","r","s","t","u","v","w","x","y","z",
    "à","á","â","ã","ä","å","æ","ç","è","é","ê","ë","ì","í","î",
    "ï","ð","ñ","ò","ó","ô","õ","ö","ø","ù","ú","û","ü","ý","þ">>

UpperAlphabet ==
  <<"A","B","C","D","E","F","G","H","I","J","K","L","M","N","O","P","Q","R","S","T","U","V","W","X","Y","Z",
    "À","Á","Â","Ã","Ä","Å","Æ","Ç","È","É","Ê","Ë","Ì","Í","Î",
    "Ï","Ð","Ñ","Ò","Ó","Ô","Õ","Ö","Ø","Ù","Ú","Û","Ü","Ý","Þ">>

Digits == <<"0","1","2","3","4","5","6","7","8","9">>

CharToLower(c) ==
  IF \E i \in 1..Len(UpperAlphabet) : UpperAlphabet[i] = c
  THEN LowerAlphabet[CHOOSE i \in 1..Len(UpperAlphabet) : UpperAlphabet[i] = c]
  ELSE c

\* String.prototype.toLowerCase
toLowerCase(s) == [i \in 1..Len(s) |-> CharToLower(s[i])]

\* String.prototype.startsWith
startsWith(s, p) == Len(p) <= Len(s) /\ SubSeq(s, 1, Len(p)) = p

\* String.prototype.endsWith
endsWith(s, p) == Len(p) <= Len(s) /\ SubSeq(s, Len(s) - Len(p) + 1, Len(s)) = p

\* String.prototype.includes
includes(s, p) ==
  /\ Len(p) <= Len(s)
  /\ \E k \in 0..(Len(s) - Len(p)) : SubSeq(s, k + 1, k + Len(p)) = p

\* String.prototype.split on a one-character separator: the segments between
\* the separators, empty segments included.
split(s, sep) ==
  LET seps == { i \in 1..Len(s) : s[i] = sep }
      \* the position of the n-th separator; 0 and Len(s) + 1 bracket them
      cut(n) == IF n = 0 THEN 0
                ELSE IF n > Cardinality(seps) THEN Len(s) + 1
                ELSE CHOOSE p \in seps : Cardinality({ q \in seps : q < p }) = n - 1
  IN  [n \in 1..(Cardinality(seps) + 1) |-> SubSeq(s, cut(n - 1) + 1, cut(n) - 1)]

\* Array element access `a[i]` with a zero-based index: undefined out of range.
At(a, i) == IF i + 1 \in 1..Len(a) THEN Some(a[i + 1]) ELSE None

IsDigit(c) == \E d \in 1..Len(Digits) : Digits[d] = c

DigitValue(c) == (CHOOSE i \in 1..Len(Digits) : Digits[i] = c) - 1

\* Two digit strings of the same length, compared as numbers.
DigitsLess(a, b) ==
  \E i \in 1..Len(a) :
    /\ DigitValue(a[i]) < DigitValue(b[i])
    /\ \A j \in 1..(i - 1) : a[j] = b[j]

\* Two canonical numeric strings (no leading zero), compared as numbers.
IndexLess(a, b) == Len(a) < Len(b) \/ (Len(a) = Len(b) /\ DigitsLess(a, b))

\* 2^32 - 2, the largest array index
MaxArrayIndex == <<"4","2","9","4","9","6","7","2","9","4">>

\* A property key that is a canonical array index (ECMAScript "array index":
\* the canonical string of an integer in 0..2^32 - 2), which own-property
\* enumeration lists first, ascending.
IsArrayIndex(s) ==
  /\ Len(s) >= 1
  /\ \A i \in 1..Len(s) : IsDigit(s[i])
  /\ (Len(s) > 1 => s[1] # "0")
  /\ (s = MaxArrayIndex \/ IndexLess(s, MaxArrayIndex))

\* Number::toString of a non-negative integer
RECURSIVE NumberToString(_)
NumberToString(n) ==
  IF n < 10 THEN << Digits[n + 1] >>
  ELSE NumberToString(n \div 10) \o << Digits[(n % 10) + 1] >>

\* ------------------------------------------------------------ configuration
\* CONFIG.EXCLUDED_FILES
EXCLUDED_FILES ==
  << <<"p","a","c","k","a","g","e","-","l","o","c","k",".","j","s","o","n">>,
     <<"c","o","m","p","o","s","e","r",".","l","o","c","k">>,
     <<"y","a","r","n",".","l","o","c","k">>,
     <<"p","n","p","m","-","l","o","c","k",".","y","a","m","l">>,
     <<".","s","v","g">>,
     <<".","p","n","g">>,
     <<".","j","p","g">>,
     <<".","j","p","e","g">>,
     <<".","g","i","f">>,
     <<".","i","c","o">>,
     <<".","p","d","f">>,
     <<".","z","i","p">>,
     <<".","t","t","f">>,
     <<".","w","o","f","f">>,
     <<".","w","o","f","f","2">>,
     <<".","e","o","t">>,
     <<"d","i","s","t","/">>,
     <<"b","u","i","l","d","/">>,
     <<"p","u","b","l","i","c","/","b","u","i","l","d","/">>,
     <<".","m","i","n",".","j","s">>,
     <<".","m","i","n",".","c","s","s">>,
     <<".","p","o">>,
     <<".","m","o">>,
     <<".","c","s","v">> >>

\* ------------------------------------------------------------ github.ts helpers
\* extractRepoInfo: positional parse of the PR URL
extractRepoInfo(url) ==
  LET urlParts == split(url, "/")
  IN  [repo |-> At(urlParts, 4), owner |-> At(urlParts, 3)]

Str_develop == <<"d","e","v","e","l","o","p">>

Str_master == <<"m","a","s","t","e","r">>

Str_main == <<"m","a","i","n">>

Str_deploy_to_main == <<"d","e","p","l","o","y","-","t","o","-","m","a","i","n">>

\* shouldSkipPR with the master -> develop direction forgotten
shouldSkipPR_oneDirection(head, base) ==
  \/ (head = Some(Str_develop) /\ base = Some(Str_master))
  \/ (head = Some(Str_main) /\ base = Some(Str_develop))
  \/ (head = Some(Str_develop) /\ base = Some(Str_main))
  \/ (head = Some(Str_main) /\ base = Some(Str_deploy_to_main))
  \/ (head = Some(Str_deploy_to_main) /\ base = Some(Str_main))

\* shouldSkipPR(head?, base?): head and base are optional strings
shouldSkipPR(head, base) ==
  \/ (head = Some(Str_develop) /\ base = Some(Str_master))
  \/ (head = Some(Str_master) /\ base = Some(Str_develop))
  \/ (head = Some(Str_main) /\ base = Some(Str_develop))
  \/ (head = Some(Str_develop) /\ base = Some(Str_main))
  \/ (head = Some(Str_main) /\ base = Some(Str_deploy_to_main))
  \/ (head = Some(Str_deploy_to_main) /\ base = Some(Str_main))

\* the callback of CONFIG.EXCLUDED_FILES.some in isExcludedFile
PatternExcludes(pattern, filename) ==
  IF startsWith(pattern, <<".">>) /\ endsWith(filename, pattern) THEN TRUE
  ELSE IF endsWith(pattern, <<"/">>) /\ includes(filename, pattern) THEN TRUE
  ELSE IF includes(filename, pattern) THEN TRUE
  ELSE FALSE

isExcludedFile(filename) ==
  \E i \in 1..Len(EXCLUDED_FILES) : PatternExcludes(EXCLUDED_FILES[i], filename)

\* calculateCodeChanges: forEach over the file list, left to right
RECURSIVE calculateCodeChanges(_)
calculateCodeChanges(filesData) ==
  IF Len(filesData) = 0 THEN [additions |-> 0, deletions |-> 0]
  ELSE LET rest == calculateCodeChanges(SubSeq(filesData, 1, Len(filesData) - 1))
           file == filesData[Len(filesData)]
       IN  IF ~isExcludedFile(file.filename)
           THEN [additions |-> rest.additions + file.additions,
                 deletions |-> rest.deletions + file.deletions]
           ELSE rest

\* ------------------------------------------------------------ state
VARIABLES
  AUTHORS,         \* CONFIG.AUTHORS, the configured author logins, in order
  pc,              \* main's position: "search", "details", "enrich", "export", "done"
  searchResp,      \* per author: the response its search request received
  authorPRArrays,  \* per author: what fetchAuthorPRs resolved to
  allPRs,          \* what fetchPullRequests returned, the list passed to fetchPRDetails
  detailedPRs,     \* fetchPRDetails' deep copy; each flow mutates its own record
  flow,            \* per record: "detail", "files" (request in flight) or "done"
  processedPRs,    \* per record: "pending", "null" (discarded) or "pr" (returned)
  detailSeen,      \* per record: the detail response its flow received
  filesSeen,       \* per record: the files response its flow received
  finalPRs,        \* what fetchPRDetails returned
  report,          \* the workbook content built by exportToExcel
  written          \* outcome of workbook.xlsx.writeFile: "none" (not settled), "ok" or "error"

vars == << AUTHORS, pc, searchResp, authorPRArrays, allPRs, detailedPRs,
           flow, processedPRs, detailSeen, filesSeen, finalPRs, report, written >>

\* ------------------------------------------------------------ arrays
\* Array.prototype.slice(0, limit)
slice(a, limit) == SubSeq(a, 1, IF limit < Len(a) THEN limit ELSE Len(a))

\* ------------------------------------------------------------ JavaScript values
\* The values a property of repoChangesMap can hold or inherit.
Num(n) == [type |-> "number", n |-> n]

Str(s) == [type |-> "string", s |-> s]

\* a built-in function, by its name
Fn(name) == [type |-> "function", name |-> name]

\* Object.prototype, what the __proto__ accessor of a plain object returns
ObjectPrototype == [type |-> "object"]

Undefined == [type |-> "undefined"]

\* ToBoolean
Truthy(v) ==
  CASE v.type = "undefined" -> FALSE
    [] v.type = "number" -> v.n # 0
    [] v.type = "string" -> Len(v.s) > 0
    [] OTHER -> TRUE

\* ToString
ToStringValue(v) ==
  CASE v.type = "number" -> NumberToString(v.n)
    [] v.type = "string" -> v.s
    [] v.type = "function" ->
         <<"f","u","n","c","t","i","o","n"," ">> \o v.name \o <<"(",")"," ","{"," ","[","n","a","t","i","v","e"," ","c","o","d","e","]"," ","}">>
    [] v.type = "object" -> <<"[","o","b","j","e","c","t"," ","O","b","j","e","c","t","]">>
    [] OTHER -> <<"u","n","d","e","f","i","n","e","d">>

\* `v + n` for a number n: a sum of numbers, else the concatenation of the
\* two strings
JsAdd(v, n) ==
  IF v.type = "number" THEN Num(v.n + n)
  ELSE Str(ToStringValue(v) \o NumberToString(n))

\* ------------------------------------------------------------ Array.prototype.sort
\* The comparator (a, b) => b.k - a.k as the sort reads it: a difference
\* that is NaN (a key that is not a number) counts as 0.
Compare(a, b) ==
  IF a.k.type = "number" /\ b.k.type = "number" THEN b.k.n - a.k.n ELSE 0

\* The comparator is consistent on the elements of `items`: being equal under
\* it and being before under it are transitive.  It is not when a key that
\* is not a number meets two numbers that differ.
ConsistentComparator(items) ==
  \A i, j, m \in 1..Len(items) :
    /\ Compare(items[i], items[j]) = 0 /\ Compare(items[j], items[m]) = 0
         => Compare(items[i], items[m]) = 0
    /\ Compare(items[i], items[j]) < 0 /\ Compare(items[j], items[m]) < 0
         => Compare(items[i], items[m]) < 0

\* The place the stable sort gives the element at position i
SortRank(items, i) ==
  1 + Cardinality({ j \in 1..Len(items) :
                      \/ Compare(items[j], items[i]) < 0
                      \/ Compare(items[j], items[i]) = 0 /\ j < i })

\* Array.prototype.sort((a, b) => b.k - a.k) with a consistent comparator:
\* descending keys, equal keys in their order in the array
sortDesc(items) ==
  [r \in 1..Len(items) |-> items[CHOOSE i \in 1..Len(items) : SortRank(items, i) = r]]

\* The arrays with the elements of `items` in some order
Reorderings(items) ==
  { [r \in 1..Len(items) |-> items[p[r]]] : p \in Permutations(1..Len(items)) }

\* What Array.prototype.sort((a, b) => b.k - a.k) may leave in the array:
\* the stable descending order when the comparator is consistent; the order
\* is implementation-defined when it is not, and differs between engines.
SortResults(items) ==
  IF ConsistentComparator(items) THEN { sortDesc(items) } ELSE Reorderings(items)

\* flat that puts each later array in front of the earlier ones
RECURSIVE flat_lastFirst(_)
flat_lastFirst(arrays) ==
  IF Len(arrays) = 0 THEN << >>
  ELSE arrays[Len(arrays)] \o flat_lastFirst(SubSeq(arrays, 1, Len(arrays) - 1))

\* Array.prototype.flat on an array of arrays
RECURSIVE flat(_)
flat(arrays) ==
  IF Len(arrays) = 0 THEN << >>
  ELSE flat(SubSeq(arrays, 1, Len(arrays) - 1)) \o arrays[Len(arrays)]

\* prs.reduce((sum, pr) => sum + (pr.additions || 0), 0)
RECURSIVE SumAdditions(_)
SumAdditions(prs) ==
  IF Len(prs) = 0 THEN 0
  ELSE SumAdditions(SubSeq(prs, 1, Len(prs) - 1)) + OrZero(prs[Len(prs)].additions)

\* prs.reduce((sum, pr) => sum + (pr.deletions || 0), 0)
RECURSIVE SumDeletions(_)
SumDeletions(prs) ==
  IF Len(prs) = 0 THEN 0
  ELSE SumDeletions(SubSeq(prs, 1, Len(prs) - 1)) + OrZero(prs[Len(prs)].deletions)

\* ------------------------------------------------------------ excel.ts
\* the argument of getTopPRsByChanges / getTopReposByChanges at their call sites
TopLimit == 5

\* calculateAuthorStats built from the authors that occur in the records only
calculateAuthorStats_activeOnly(prs) ==
  LET active == SelectSeq(AUTHORS, LAMBDA author :
                            \E j \in 1..Len(prs) : prs[j].login = author)
  IN  [i \in 1..Len(active) |->
         LET authorPRs == SelectSeq(prs, LAMBDA pr : pr.login = active[i])
             authorAdditions == SumAdditions(authorPRs)
             authorDeletions == SumDeletions(authorPRs)
         IN  [author |-> active[i],
              prCount |-> Len(authorPRs),
              authorAdditions |-> authorAdditions,
              authorDeletions |-> authorDeletions,
              authorChanges |-> authorAdditions + authorDeletions]]

calculateAuthorStats(prs) ==
  [i \in 1..Len(AUTHORS) |->
     LET author == AUTHORS[i]
         authorPRs == SelectSeq(prs, LAMBDA pr : pr.login = author)
         authorAdditions == SumAdditions(authorPRs)
         authorDeletions == SumDeletions(authorPRs)
     IN  [author |-> author,
          prCount |-> Len(authorPRs),
          authorAdditions |-> authorAdditions,
          authorDeletions |-> authorDeletions,
          authorChanges |-> authorAdditions + authorDeletions]]

\* addAuthorStatistics: authorStats.sort((a, b) => b.authorChanges - a.authorChanges)
SortAuthorStats(authorStats) ==
  LET keyed == [i \in 1..Len(authorStats) |->
                  [k |-> Num(authorStats[i].authorChanges), v |-> authorStats[i]]]
      sorted == sortDesc(keyed)
  IN  [i \in 1..Len(sorted) |-> sorted[i].v]

\* getTopPRsByChanges without the both-counts filter, missing counts as 0
getTopPRsByChanges_noFilter(prs, limit) ==
  LET keyed == [i \in 1..Len(prs) |->
                  [k |-> Num(OrZero(prs[i].additions) + OrZero(prs[i].deletions)), v |-> prs[i]]]
      sorted == sortDesc(keyed)
  IN  slice([i \in 1..Len(sorted) |-> sorted[i].v], limit)

getTopPRsByChanges(prs, limit) ==
  LET both == SelectSeq(prs, LAMBDA pr : IsSome(pr.additions) /\ IsSome(pr.deletions))
      keyed == [i \in 1..Len(both) |->
                  [k |-> Num(Val(both[i].additions) + Val(both[i].deletions)), v |-> both[i]]]
      sorted == sortDesc(keyed)
  IN  slice([i \in 1..Len(sorted) |-> sorted[i].v], limit)

\* The property key `repoChangesMap[pr.project]` uses: String(pr.project)
PropertyKey(project) ==
  IF IsSome(project) THEN Val(project)
  ELSE <<"u","n","d","e","f","i","n","e","d">>

\* The names of the functions a plain object inherits from Object.prototype.
PrototypeFunctions ==
  { <<"t","o","S","t","r","i","n","g">>,
    <<"t","o","L","o","c","a","l","e","S","t","r","i","n","g">>,
    <<"v","a","l","u","e","O","f">>,
    <<"h","a","s","O","w","n","P","r","o","p","e","r","t","y">>,
    <<"i","s","P","r","o","t","o","t","y","p","e","O","f">>,
    <<"p","r","o","p","e","r","t","y","I","s","E","n","u","m","e","r","a","b","l","e">>,
    <<"_","_","d","e","f","i","n","e","G","e","t","t","e","r","_","_">>,
    <<"_","_","d","e","f","i","n","e","S","e","t","t","e","r","_","_">>,
    <<"_","_","l","o","o","k","u","p","G","e","t","t","e","r","_","_">>,
    <<"_","_","l","o","o","k","u","p","S","e","t","t","e","r","_","_">> }

\* What a plain object without an own property `key` gives for it.
Inherited(key) ==
  IF key = <<"_","_","p","r","o","t","o","_","_">> THEN ObjectPrototype
  ELSE IF key = <<"c","o","n","s","t","r","u","c","t","o","r">> THEN Fn(<<"O","b","j","e","c","t">>)
  ELSE IF key \in PrototypeFunctions THEN Fn(key)
  ELSE Undefined

\* repoChangesMap is a plain object: its own properties are a sequence of
\* [key, value] in insertion order.
HasOwn(m, key) == \E i \in 1..Len(m) : m[i].key = key

\* `m[key]`: the own property, else what Object.prototype gives
MapGet(m, key) ==
  IF HasOwn(m, key) THEN m[CHOOSE i \in 1..Len(m) : m[i].key = key].value
  ELSE Inherited(key)

\* `m[key] !== undefined`
MapHas(m, key) == MapGet(m, key) # Undefined

\* `m[key] = value`: the __proto__ setter ignores a value that is neither an
\* object nor null; any other key becomes or stays an own property.
MapSet(m, key, value) ==
  IF key = <<"_","_","p","r","o","t","o","_","_">> THEN m
  ELSE IF HasOwn(m, key)
  THEN [i \in 1..Len(m) |-> IF m[i].key = key THEN [key |-> key, value |-> value] ELSE m[i]]
  ELSE Append(m, [key |-> key, value |-> value])

\* the prs.forEach of getTopReposByChanges
RECURSIVE repoChangesMap(_)
repoChangesMap(prs) ==
  IF Len(prs) = 0 THEN << >>
  ELSE LET m == repoChangesMap(SubSeq(prs, 1, Len(prs) - 1))
           pr == prs[Len(prs)]
           key == PropertyKey(pr.project)
           totalChange == OrZero(pr.additions) + OrZero(pr.deletions)
           m1 == IF ~Truthy(MapGet(m, key)) THEN MapSet(m, key, Num(0)) ELSE m
       IN  MapSet(m1, key, JsAdd(MapGet(m1, key), totalChange))

\* Object.entries: array-index keys first, ascending, then the other keys
\* in insertion order.
ObjectEntries(m) ==
  LET idx == SelectSeq(m, LAMBDA e : IsArrayIndex(e.key))
      str == SelectSeq(m, LAMBDA e : ~IsArrayIndex(e.key))
      place(e) == 1 + Cardinality({ j \in 1..Len(idx) : IndexLess(idx[j].key, e.key) })
  IN  [i \in 1..Len(idx) |-> idx[CHOOSE j \in 1..Len(idx) : place(idx[j]) = i]] \o str

\* getTopReposByChanges: the results it may return (one, unless a total is
\* not a number and the order of the sort is left to the engine)
getTopReposByChanges(prs, limit) ==
  LET entries == ObjectEntries(repoChangesMap(prs))
      keyed == [i \in 1..Len(entries) |->
                  [k |-> entries[i].value,
                   v |-> [repo |-> entries[i].key, changes |-> entries[i].value]]]
  IN  { slice([i \in 1..Len(sorted) |-> sorted[i].v], limit) : sorted \in SortResults(keyed) }

\* createPRsWorksheet: one row per record; a total of None is the "N/A" cell
createPRsWorksheet(prs) ==
  [i \in 1..Len(prs) |->
     LET pr == prs[i]
         totalChanges == OrZero(pr.additions) + OrZero(pr.deletions)
     IN  [project |-> pr.project, title |-> pr.title, author |-> pr.login,
          url |-> pr.html_url,
          additions |-> OrZero(pr.additions), deletions |-> OrZero(pr.deletions),
          total |-> IF totalChanges = 0 THEN None ELSE Some(totalChanges)]]

\* createSummaryWorksheet: the totals and the three tables; the sheets it
\* may write, one for each result of getTopReposByChanges
createSummaryWorksheet(prs) ==
  LET totalAdditions == SumAdditions(prs)
      totalDeletions == SumDeletions(prs)
  IN  { [totalPRs |-> Len(prs),
         totalAdditions |-> totalAdditions,
         totalDeletions |-> totalDeletions,
         totalChanges |-> totalAdditions + totalDeletions,
         authorStats |-> SortAuthorStats(calculateAuthorStats(prs)),
         topPRs |-> getTopPRsByChanges(prs, TopLimit),
         topRepos |-> topRepos] : topRepos \in getTopReposByChanges(prs, TopLimit) }

\* ------------------------------------------------------------ HTTP
\* What a request meets: a transport error (req.on("error")), or a response
\* with a status code and a body; a body either parses as JSON to `value`
\* or does not parse.
NetError == [net |-> "error"]

HttpResponse(status, body) == [net |-> "ok", statusCode |-> status, data |-> body]

Unparsable == [parse |-> "fail"]

Json(v) == [parse |-> "ok", value |-> v]

\* makeHttpRequest: rejects on a transport error and on a status outside 2xx
makeHttpRequest(resp) ==
  IF resp.net = "error" THEN [rejected |-> TRUE]
  ELSE IF resp.statusCode # 0 /\ (resp.statusCode < 200 \/ resp.statusCode >= 300)
       THEN [rejected |-> TRUE]
       ELSE [rejected |-> FALSE, data |-> resp.data]

\* JSON.parse
JSONparse(data) ==
  IF data.parse = "ok" THEN [threw |-> FALSE, value |-> data.value]
  ELSE [threw |-> TRUE]

\* JavaScript null, as the value of merged_at
JsNull == "null"

\* ------------------------------------------------------------ github.ts
\* The object fetchAuthorPRs builds for one item of the search result.
MapItem(pr) ==
  [number |-> pr.number, title |-> pr.title, login |-> pr.user_login,
   html_url |-> pr.html_url,
   project |-> None, head |-> None, base |-> None,
   additions |-> None, deletions |-> None]

\* fetchAuthorPRs, from the response of its request on
fetchAuthorPRs(resp) ==
  LET r == makeHttpRequest(resp)
  IN  IF r.rejected THEN << >>
      ELSE LET result == JSONparse(r.data)
           IN  IF result.threw THEN << >>
               ELSE IF IsSome(result.value.items)
                    THEN [i \in 1..Len(Val(result.value.items)) |->
                            MapItem(Val(result.value.items)[i])]
                    ELSE << >>

\* fetchPRDetail: the parsed detail, or a throw
fetchPRDetail(resp) ==
  LET r == makeHttpRequest(resp)
  IN  IF r.rejected THEN [threw |-> TRUE] ELSE JSONparse(r.data)

\* fetchPRFiles: the file list, or [] on any failure
fetchPRFiles(resp) ==
  LET r == makeHttpRequest(resp)
  IN  IF r.rejected THEN << >>
      ELSE LET filesData == JSONparse(r.data)
           IN  IF filesData.threw THEN << >>
               ELSE IF IsSome(filesData.value.array) THEN Val(filesData.value.array)
                    ELSE << >>

\* JSON.parse(JSON.stringify(prs)): a fresh record per element; an undefined
\* property is dropped by stringify and so stays undefined.
JsonCopy(prs) ==
  [i \in 1..Len(prs) |->
     [number |-> prs[i].number, title |-> prs[i].title, login |-> prs[i].login,
      html_url |-> prs[i].html_url,
      project |-> prs[i].project, head |-> prs[i].head, base |-> prs[i].base,
      additions |-> prs[i].additions, deletions |-> prs[i].deletions]]

\* enrichPRWithDetails up to its first await: pr.project = repo
enrichStart(pr) == [pr EXCEPT !.project = extractRepoInfo(pr.html_url).repo]

\* enrichPRWithDetails whose catch returns null: a failed detail fetch
\* discards the record
enrichAfterDetail_discardOnThrow(pr, resp) ==
  LET prDetailData == fetchPRDetail(resp)
  IN  IF prDetailData.threw THEN [pr |-> pr, next |-> "null"]
      ELSE LET d == prDetailData.value
               head == IF IsSome(d.head_ref) THEN Some(toLowerCase(Val(d.head_ref))) ELSE None
               base == IF IsSome(d.base_ref) THEN Some(toLowerCase(Val(d.base_ref))) ELSE None
               isOpen == d.state = "open"
               isMerged == d.merged_at # Some(JsNull)
           IN  IF ~isOpen /\ ~isMerged THEN [pr |-> pr, next |-> "null"]
               ELSE LET pr2 == [pr EXCEPT !.head = head, !.base = base]
                    IN  IF shouldSkipPR(head, base) THEN [pr |-> pr2, next |-> "null"]
                        ELSE [pr |-> pr2, next |-> "files"]

\* enrichPRWithDetails from the detail response to its next await or return.
\* next: "null" (return null), "pr" (return pr) or "files" (await fetchPRFiles)
enrichAfterDetail(pr, resp) ==
  LET prDetailData == fetchPRDetail(resp)
  IN  IF prDetailData.threw THEN [pr |-> pr, next |-> "pr"]
      ELSE LET d == prDetailData.value
               head == IF IsSome(d.head_ref) THEN Some(toLowerCase(Val(d.head_ref))) ELSE None
               base == IF IsSome(d.base_ref) THEN Some(toLowerCase(Val(d.base_ref))) ELSE None
               isOpen == d.state = "open"
               isMerged == d.merged_at # Some(JsNull)
           IN  IF ~isOpen /\ ~isMerged THEN [pr |-> pr, next |-> "null"]
               ELSE LET pr2 == [pr EXCEPT !.head = head, !.base = base]
                    IN  IF shouldSkipPR(head, base) THEN [pr |-> pr2, next |-> "null"]
                        ELSE [pr |-> pr2, next |-> "files"]

\* enrichPRWithDetails from the files response to its return
enrichAfterFiles(pr, resp) ==
  LET filesData == fetchPRFiles(resp)
      changes == calculateCodeChanges(filesData)
  IN  [pr |-> [pr EXCEPT !.additions = Some(changes.additions),
                         !.deletions = Some(changes.deletions)],
       next |-> "pr"]

\* the null filter that collects the kept records last-first
RECURSIVE filterNotNull_lastFirst(_, _)
filterNotNull_lastFirst(prs, processed) ==
  IF Len(prs) = 0 THEN << >>
  ELSE LET front == filterNotNull_lastFirst(SubSeq(prs, 1, Len(prs) - 1),
                                            SubSeq(processed, 1, Len(prs) - 1))
       IN  IF processed[Len(prs)] = "null" THEN front
           ELSE << prs[Len(prs)] >> \o front

\* processedPRs.filter((pr) => pr !== null)
RECURSIVE filterNotNull(_, _)
filterNotNull(prs, processed) ==
  IF Len(prs) = 0 THEN << >>
  ELSE LET front == filterNotNull(SubSeq(prs, 1, Len(prs) - 1),
                                  SubSeq(processed, 1, Len(prs) - 1))
       IN  IF processed[Len(prs)] = "null" THEN front
           ELSE Append(front, prs[Len(prs)])

\* ------------------------------------------------------------ inputs
\* Configured author lists (GITHUB_AUTHORS split on ",").
AuthorConfigs ==
  { <<"anshour", "nandi-ir">>, <<"nandi-ir", "Syifatf", "anshour">> }

UrlPrefix == <<"h","t","t","p","s",":","/","/","g","i","t","h","u","b",".","c","o","m","/","o","/">>

\* The html_url the API gives PR `digit` of repository `repo`.
PullUrl(repo, digit) == UrlPrefix \o repo \o <<"/","p","u","l","l","/">> \o << digit >>

Repo_api == <<"a","p","i">>

Repo_web == <<"w","e","b">>

Repo_7 == <<"7">>

\* The items the search API holds for each author, newest first.  The
\* `author:` qualifier of the search names an account whatever the case of
\* its letters; user.login of an item is the login as the account spells it.
SearchItems(author) ==
  IF author \in {"anshour", "Anshour"}
  THEN << [number |-> 1, title |-> "Add login", user_login |-> "anshour",
           html_url |-> PullUrl(Repo_api, "1")],
          [number |-> 4, title |-> "Fix logout", user_login |-> "anshour",
           html_url |-> PullUrl(Repo_web, "4")] >>
  ELSE IF author = "nandi-ir"
  THEN << [number |-> 2, title |-> "Bump deps", user_login |-> "nandi-ir",
           html_url |-> PullUrl(Repo_7, "2")],
          [number |-> 3, title |-> "Add report", user_login |-> "nandi-ir",
           html_url |-> PullUrl(Repo_api, "3")] >>
  ELSE << >>

ItemLists(author) ==
  { SubSeq(SearchItems(author), 1, k) :
      k \in 0..(IF MaxItems < Len(SearchItems(author)) THEN MaxItems
                ELSE Len(SearchItems(author))) }

\* What the search request of `author` can meet.
SearchResponses(author) ==
  { NetError,
    HttpResponse(403, Json([items |-> None])),
    HttpResponse(200, Unparsable),
    HttpResponse(200, Json([items |-> None])) }
  \cup { HttpResponse(200, Json([items |-> Some(l)])) : l \in ItemLists(author) }

Timestamp == "2025-05-02T10:00:00Z"

Str_feature_x == <<"f","e","a","t","u","r","e","-","x">>

\* head.ref / base.ref of a detail response; None: no ref in the response
RawRefs ==
  { None, Some(Str_develop), Some(Str_master), Some(Str_main),
    Some(Str_deploy_to_main), Some(<<"F","e","a","t","u","r","e","-","É">>),
    Some(<<"D","e","v","e","l","o","p">>) }

DetailValues ==
  [ state : {"open", "closed"},
    merged_at : {None, Some(JsNull), Some(Timestamp)},
    head_ref : RawRefs,
    base_ref : RawRefs ]

Detail(state, merged_at, head, base) ==
  [state |-> state, merged_at |-> merged_at, head_ref |-> head, base_ref |-> base]

\* What a detail request can meet: every shape, for the single-record runs
DetailResponsesAll ==
  { NetError,
    HttpResponse(404, Json(Detail("closed", Some(JsNull), None, None))),
    HttpResponse(200, Unparsable) }
  \cup { HttpResponse(200, Json(v)) : v \in DetailValues }

\* What a detail request meets in the whole-run specification
DetailResponsesRun ==
  { NetError,
    HttpResponse(404, Json(Detail("closed", Some(JsNull), None, None))),
    HttpResponse(200, Json(Detail("closed", Some(JsNull), Some(Str_feature_x), Some(Str_main)))),
    HttpResponse(200, Json(Detail("open", Some(JsNull), Some(Str_feature_x), Some(Str_main)))),
    HttpResponse(200, Json(Detail("closed", Some(Timestamp), Some(<<"D","e","v","e","l","o","p">>), Some(Str_master)))) }

File(filename, additions, deletions) ==
  [filename |-> filename, additions |-> additions, deletions |-> deletions]

FilePool ==
  { File(<<"s","r","c","/","a","p","p",".","t","s">>, 1, 3),
    File(<<"s","r","c","/","a","p","p",".","m","o","d","u","l","e",".","t","s">>, 2, 5),
    File(<<"d","i","s","t","/","b","u","n","d","l","e",".","m","i","n",".","j","s">>, 4, 7),
    File(<<"d","i","s","t","/","x",".","t","s">>, 8, 11),
    File(<<"a",".","m","i","n",".","j","s">>, 16, 13),
    File(<<"y","a","r","n",".","l","o","c","k">>, 32, 17) }

FileLists == UNION { [1..k -> FilePool] : k \in 0..MaxFiles }

\* What a files request can meet: every shape, for the single-record runs
FilesResponsesAll ==
  { NetError,
    HttpResponse(500, Unparsable),
    HttpResponse(200, Unparsable),
    HttpResponse(200, Json([array |-> None])) }
  \cup { HttpResponse(200, Json([array |-> Some(l)])) : l \in FileLists }

\* What a files request meets in the whole-run specification
FilesResponsesRun ==
  { NetError,
    HttpResponse(200, Json([array |-> None])),
    HttpResponse(200, Json([array |-> Some(<< File(<<"s","r","c","/","a","p","p",".","t","s">>, 1, 3),
                                              File(<<"y","a","r","n",".","l","o","c","k">>, 32, 17) >>)])) }

\* The record list handed to fetchPRDetails in the single-record runs
EnrichInputs == { << MapItem(SearchItems("nandi-ir")[1]) >> }

\* Records handed to exportToExcel in the aggregation runs: the record at
\* position i has PR number i and one of three shapes; a shape
\* that is not `own` puts the record in the shared repository api.
\* The names include integer-like ones and members of Object.prototype.
RepoNames == << <<"a","p","i">>, <<"1","0">>,
               <<"c","o","n","s","t","r","u","c","t","o","r">>,
               <<"_","_","p","r","o","t","o","_","_">> >>

RepoAt(i) == RepoNames[((i - 1) % Len(RepoNames)) + 1]

Shapes ==
  << [login |-> "anshour", additions |-> Some(2), deletions |-> Some(1), own |-> TRUE],
     [login |-> "nandi-ir", additions |-> Some(0), deletions |-> Some(1), own |-> TRUE],
     [login |-> "anshour", additions |-> Some(4), deletions |-> None, own |-> FALSE] >>

RecordAt(i, shape) ==
  LET repo == IF shape.own THEN RepoAt(i) ELSE Repo_api
  IN  [number |-> i, title |-> "PR", login |-> shape.login,
       html_url |-> PullUrl(repo, Digits[(i % 10) + 1]),
       project |-> Some(repo), head |-> Some(Str_feature_x), base |-> Some(Str_main),
       additions |-> shape.additions, deletions |-> shape.deletions]

\* The record list that gives position i the shape f[i].
RecordList(f) == [i \in 1..Len(f) |-> RecordAt(i, Shapes[f[i]])]

\* ------------------------------------------------------------ actions
Init ==
  /\ AUTHORS \in AuthorConfigs
  /\ pc = "search"
  /\ searchResp = [a \in 1..Len(AUTHORS) |-> None]
  /\ authorPRArrays = [a \in 1..Len(AUTHORS) |-> None]
  /\ allPRs = << >>
  /\ detailedPRs = << >>
  /\ flow = << >>
  /\ processedPRs = << >>
  /\ detailSeen = << >>
  /\ filesSeen = << >>
  /\ finalPRs = << >>
  /\ report = None
  /\ written = "none"

\* The search request of author a is answered: fetchAuthorPRs resolves.
SearchResponse(a, resp) ==
  /\ pc = "search"
  /\ authorPRArrays[a] = None
  /\ searchResp' = [searchResp EXCEPT ![a] = Some(resp)]
  /\ authorPRArrays' = [authorPRArrays EXCEPT ![a] = Some(fetchAuthorPRs(resp))]
  /\ UNCHANGED << AUTHORS, pc, allPRs, detailedPRs, flow, processedPRs, detailSeen,
                  filesSeen, finalPRs, report, written >>

\* fetchPullRequests: Promise.all over the authors resolved, then flat()
SearchJoin ==
  /\ pc = "search"
  /\ \A a \in 1..Len(AUTHORS) : authorPRArrays[a] # None
  /\ allPRs' = flat([a \in 1..Len(AUTHORS) |-> Val(authorPRArrays[a])])
  /\ pc' = "details"
  /\ UNCHANGED << AUTHORS, searchResp, authorPRArrays, detailedPRs, flow, processedPRs,
                  detailSeen, filesSeen, finalPRs, report, written >>

\* fetchPRDetails up to its await: the empty-list return, or the deep copy
\* and the start of one enrichPRWithDetails flow per record.
StartDetails ==
  /\ pc = "details"
  /\ IF Len(allPRs) = 0
     THEN /\ finalPRs' = << >>
          /\ pc' = "export"
          /\ UNCHANGED << detailedPRs, flow, processedPRs, detailSeen, filesSeen >>
     ELSE /\ detailedPRs' = [i \in 1..Len(allPRs) |-> enrichStart(JsonCopy(allPRs)[i])]
          /\ flow' = [i \in 1..Len(allPRs) |-> "detail"]
          /\ processedPRs' = [i \in 1..Len(allPRs) |-> "pending"]
          /\ detailSeen' = [i \in 1..Len(allPRs) |-> None]
          /\ filesSeen' = [i \in 1..Len(allPRs) |-> None]
          /\ pc' = "enrich"
          /\ UNCHANGED finalPRs
  /\ UNCHANGED << AUTHORS, searchResp, authorPRArrays, allPRs, report, written >>

\* The detail request of record i is answered.
DetailResponse(i, resp) ==
  /\ pc = "enrich"
  /\ flow[i] = "detail"
  /\ LET r == enrichAfterDetail(detailedPRs[i], resp)
     IN  /\ detailedPRs' = [detailedPRs EXCEPT ![i] = r.pr]
         /\ flow' = [flow EXCEPT ![i] = IF r.next = "files" THEN "files" ELSE "done"]
         /\ processedPRs' = [processedPRs EXCEPT
                               ![i] = IF r.next = "files" THEN "pending" ELSE r.next]
  /\ detailSeen' = [detailSeen EXCEPT ![i] = Some(resp)]
  /\ UNCHANGED << AUTHORS, pc, searchResp, authorPRArrays, allPRs, filesSeen, finalPRs,
                  report, written >>

\* The files request of record i is answered.
FilesResponse(i, resp) ==
  /\ pc = "enrich"
  /\ flow[i] = "files"
  /\ LET r == enrichAfterFiles(detailedPRs[i], resp)
     IN  /\ detailedPRs' = [detailedPRs EXCEPT ![i] = r.pr]
         /\ flow' = [flow EXCEPT ![i] = "done"]
         /\ processedPRs' = [processedPRs EXCEPT ![i] = r.next]
  /\ filesSeen' = [filesSeen EXCEPT ![i] = Some(resp)]
  /\ UNCHANGED << AUTHORS, pc, searchResp, authorPRArrays, allPRs, detailSeen, finalPRs,
                  report, written >>

\* DetailsJoin over flows that rethrow: Promise.all rejects when a detail
\* request failed, and fetchPRDetails never returns
DetailsJoin_failFast ==
  /\ pc = "enrich"
  /\ \A i \in 1..Len(flow) : flow[i] = "done"
  /\ \A i \in 1..Len(flow) : ~makeHttpRequest(Val(detailSeen[i])).rejected
  /\ finalPRs' = filterNotNull(detailedPRs, processedPRs)
  /\ pc' = "export"
  /\ UNCHANGED << AUTHORS, searchResp, authorPRArrays, allPRs, detailedPRs, flow,
                  processedPRs, detailSeen, filesSeen, report, written >>

\* DetailsJoin built on Promise.race: it resumes as soon as one flow resolved
DetailsJoin_race ==
  /\ pc = "enrich"
  /\ \E i \in 1..Len(flow) : flow[i] = "done"
  /\ finalPRs' = filterNotNull(detailedPRs, processedPRs)
  /\ pc' = "export"
  /\ UNCHANGED << AUTHORS, searchResp, authorPRArrays, allPRs, detailedPRs, flow,
                  processedPRs, detailSeen, filesSeen, report, written >>

\* fetchPRDetails: Promise.all over the records resolved, then the null filter
DetailsJoin ==
  /\ pc = "enrich"
  /\ \A i \in 1..Len(flow) : flow[i] = "done"
  /\ finalPRs' = filterNotNull(detailedPRs, processedPRs)
  /\ pc' = "export"
  /\ UNCHANGED << AUTHORS, searchResp, authorPRArrays, allPRs, detailedPRs, flow,
                  processedPRs, detailSeen, filesSeen, report, written >>

\* exportToExcel up to its await: both worksheets are built, then
\* ensureOutputDirectoryExists runs, then writeFile is called.  When mkdirSync
\* throws, exportToExcel rejects before writeFile is called and the caller
\* (the catch of main) ends the run.
Export(dirOk) ==
  /\ pc = "export"
  /\ report = None
  /\ \E summary \in createSummaryWorksheet(finalPRs) :
       report' = Some([rows |-> createPRsWorksheet(finalPRs), summary |-> summary])
  /\ pc' = IF dirOk THEN "export" ELSE "done"
  /\ UNCHANGED << AUTHORS, searchResp, authorPRArrays, allPRs, detailedPRs, flow,
                  processedPRs, detailSeen, filesSeen, finalPRs, written >>

\* workbook.xlsx.writeFile settles: exportToExcel logs the success, or
\* catches and logs the error, and returns.
WriteFileSettles(writeOk) ==
  /\ pc = "export"
  /\ IsSome(report)
  /\ written' = IF writeOk THEN "ok" ELSE "error"
  /\ pc' = "done"
  /\ UNCHANGED << AUTHORS, searchResp, authorPRArrays, allPRs, detailedPRs, flow,
                  processedPRs, detailSeen, filesSeen, finalPRs, report >>

\* ------------------------------------------------------------ specifications
\* A whole run of main.
Next ==
  \/ \E a \in 1..Len(AUTHORS) : \E resp \in SearchResponses(AUTHORS[a]) :
       SearchResponse(a, resp)
  \/ SearchJoin
  \/ StartDetails
  \/ \E i \in 1..Len(flow) : \E resp \in DetailResponsesRun : DetailResponse(i, resp)
  \/ \E i \in 1..Len(flow) : \E resp \in FilesResponsesRun : FilesResponse(i, resp)
  \/ DetailsJoin
  \/ \E dirOk \in BOOLEAN : Export(dirOk)
  \/ \E writeOk \in BOOLEAN : WriteFileSettles(writeOk)

Spec == Init /\ [][Next]_vars

\* fetchPRDetails called on a one-record list, every response shape.
InitEnrich ==
  /\ AUTHORS = <<"anshour", "nandi-ir">>
  /\ pc = "details"
  /\ searchResp = << >>
  /\ authorPRArrays = << >>
  /\ allPRs \in EnrichInputs
  /\ detailedPRs = << >>
  /\ flow = << >>
  /\ processedPRs = << >>
  /\ detailSeen = << >>
  /\ filesSeen = << >>
  /\ finalPRs = << >>
  /\ report = None
  /\ written = "none"

NextEnrich ==
  \/ StartDetails
  \/ \E i \in 1..Len(flow) : \E resp \in DetailResponsesAll : DetailResponse(i, resp)
  \/ \E i \in 1..Len(flow) : \E resp \in FilesResponsesAll : FilesResponse(i, resp)
  \/ DetailsJoin

SpecEnrich == InitEnrich /\ [][NextEnrich]_vars

\* exportToExcel called on a record list.
InitAgg ==
  /\ AUTHORS = <<"nandi-ir", "Syifatf", "anshour">>
  /\ pc = "export"
  /\ searchResp = << >>
  /\ authorPRArrays = << >>
  /\ allPRs = << >>
  /\ detailedPRs = << >>
  /\ flow = << >>
  /\ processedPRs = << >>
  /\ detailSeen = << >>
  /\ filesSeen = << >>
  /\ \E k \in 0..MaxRecs : \E f \in [1..k -> 1..Len(Shapes)] : finalPRs = RecordList(f)
  /\ report = None
  /\ written = "none"

NextAgg ==
  \/ \E dirOk \in BOOLEAN : Export(dirOk)
  \/ \E writeOk \in BOOLEAN : WriteFileSettles(writeOk)

SpecAgg == InitAgg /\ [][NextAgg]_vars

\* A whole run of main whose configuration spells the login of an author in
\* another case than the account does.
InitSpelling ==
  /\ AUTHORS = <<"Anshour", "nandi-ir">>
  /\ pc = "search"
  /\ searchResp = [a \in 1..Len(AUTHORS) |-> None]
  /\ authorPRArrays = [a \in 1..Len(AUTHORS) |-> None]
  /\ allPRs = << >>
  /\ detailedPRs = << >>
  /\ flow = << >>
  /\ processedPRs = << >>
  /\ detailSeen = << >>
  /\ filesSeen = << >>
  /\ finalPRs = << >>
  /\ report = None
  /\ written = "none"

SpecSpelling == InitSpelling /\ [][Next]_vars

\* A whole run of main in which every request in flight is eventually
\* answered (by a response or by an error) and the event loop eventually runs
\* every continuation that is ready.
Responses ==
  \/ \E a \in 1..Len(AUTHORS) : \E resp \in SearchResponses(AUTHORS[a]) :
       SearchResponse(a, resp)
  \/ \E i \in 1..Len(flow) : \E resp \in DetailResponsesRun : DetailResponse(i, resp)
  \/ \E i \in 1..Len(flow) : \E resp \in FilesResponsesRun : FilesResponse(i, resp)

\* fetchPullRequests and fetchPRDetails resume once what they await resolved.
Joins ==
  \/ SearchJoin
  \/ StartDetails
  \/ DetailsJoin

\* exportToExcel, once called, returns or throws: its synchronous part runs
\* and the write of the file, when started, settles.
ExportReturns == pc = "export" /\ pc' = "done"

InitLive == Init /\ AUTHORS = <<"anshour", "nandi-ir">>

SpecLive ==
  InitLive /\ [][Next]_vars /\ WF_vars(Responses) /\ WF_vars(Joins) /\ WF_pc(ExportReturns)

\* ------------------------------------------------------------ claims: vocabulary
\* The request was answered with a 2xx status and a body that parses.
Answered(resp) ==
  /\ resp.net = "ok"
  /\ resp.statusCode \in 200..299
  /\ resp.data.parse = "ok"

\* Transport error or non-2xx status.
TransportOrHttpFailure(resp) ==
  resp.net = "error" \/ resp.statusCode \notin 200..299

\* The files fetch succeeded: answered, and the body is a list.
FilesSucceeded(resp) == Answered(resp) /\ IsSome(resp.data.value.array)

HasMergeTimestamp(d) == IsSome(d.merged_at) /\ Val(d.merged_at) # JsNull

OpenOrMerged(d) == d.state = "open" \/ HasMergeTimestamp(d)

\* Record i of the list passed to fetchPRDetails is in the list it returned.
InOutput(i) == \E j \in 1..Len(finalPRs) : finalPRs[j].number = allPRs[i].number

\* fetchPRDetails has returned.
Returned == pc \in {"export", "done"}

\* Two strings are equal up to the case of their letters.
SameIgnoringCase(s, u) ==
  /\ Len(s) = Len(u)
  /\ \A i \in 1..Len(s) :
       \/ s[i] = u[i]
       \/ \E k \in 1..Len(LowerAlphabet) :
            {s[i], u[i]} = {LowerAlphabet[k], UpperAlphabet[k]}

SyncPairs ==
  { <<Str_develop, Str_master>>, <<Str_main, Str_develop>>,
    <<Str_main, Str_deploy_to_main>> }

\* (head, base) is one of the sync pairs, in either direction, whatever the case.
IsSyncPair(head, base) ==
  /\ IsSome(head)
  /\ IsSome(base)
  /\ \E p \in SyncPairs :
       \/ SameIgnoringCase(Val(head), p[1]) /\ SameIgnoringCase(Val(base), p[2])
       \/ SameIgnoringCase(Val(head), p[2]) /\ SameIgnoringCase(Val(base), p[1])

\* ------------------------------------------------------------ C1
\* C1: a record whose detail fetch succeeded is kept only if the detail is
\* open or carries a merge timestamp; one that is not open and carries no
\* merge timestamp (null or missing) is discarded and never in the output.
C1_ClosedUnmergedDiscarded ==
  \A i \in 1..Len(flow) :
    (IsSome(detailSeen[i]) /\ Answered(Val(detailSeen[i])))
      => LET d == Val(detailSeen[i]).data.value
         IN  ~OpenOrMerged(d)
               => /\ processedPRs[i] = "null"
                  /\ (Returned => ~InOutput(i))

\* ------------------------------------------------------------ C2
\* C2: an open-or-merged record is discarded exactly when its (head, base)
\* pair, case ignored, is one of the three sync pairs in either direction;
\* any other pair, or a missing head or base, is retained.
C2_SyncPairsDiscardedExactly ==
  \A i \in 1..Len(flow) :
    (IsSome(detailSeen[i]) /\ Answered(Val(detailSeen[i])))
      => LET d == Val(detailSeen[i]).data.value
         IN  OpenOrMerged(d)
               => /\ (processedPRs[i] = "null") <=> IsSyncPair(d.head_ref, d.base_ref)
                  /\ (Returned => (InOutput(i) <=> ~IsSyncPair(d.head_ref, d.base_ref)))

\* A merged record with head "Develop" (upper-case D) and base "master" was discarded.
C2_Witness ==
  \E i \in 1..Len(flow) :
    /\ Returned
    /\ IsSome(detailSeen[i])
    /\ Answered(Val(detailSeen[i]))
    /\ HasMergeTimestamp(Val(detailSeen[i]).data.value)
    /\ Val(detailSeen[i]).data.value.head_ref = Some(<<"D","e","v","e","l","o","p">>)
    /\ Val(detailSeen[i]).data.value.base_ref = Some(Str_master)
    /\ ~InOutput(i)

\* ------------------------------------------------------------ C4
\* C4: in the output, additions and deletions are both present or both
\* absent, present only if the detail fetch and the files fetch both
\* succeeded; a record whose files fetch failed is returned with both absent.
C4_CountsOnlyWhenEnriched ==
  \A i \in 1..Len(flow) :
    processedPRs[i] = "pr"
      => LET pr == detailedPRs[i]
         IN  /\ IsSome(pr.additions) <=> IsSome(pr.deletions)
             /\ IsSome(pr.additions)
                  => /\ IsSome(detailSeen[i]) /\ Answered(Val(detailSeen[i]))
                     /\ IsSome(filesSeen[i]) /\ FilesSucceeded(Val(filesSeen[i]))
             /\ (IsSome(filesSeen[i]) /\ ~FilesSucceeded(Val(filesSeen[i])))
                  => ~IsSome(pr.additions) /\ ~IsSome(pr.deletions)

\* ------------------------------------------------------------ C9
\* The rule of a pattern: suffix match if it begins with ".", substring
\* match otherwise (whether or not it ends with "/").
RuleMatches(pattern, filename) ==
  IF pattern[1] = "." THEN endsWith(filename, pattern)
  ELSE includes(filename, pattern)

RuleExcluded(filename) ==
  \E k \in 1..Len(EXCLUDED_FILES) : RuleMatches(EXCLUDED_FILES[k], filename)

RECURSIVE CountedAdditions(_)
CountedAdditions(files) ==
  IF Len(files) = 0 THEN 0
  ELSE (IF RuleExcluded(files[1].filename) THEN 0 ELSE files[1].additions)
       + CountedAdditions(Tail(files))

RECURSIVE CountedDeletions(_)
CountedDeletions(files) ==
  IF Len(files) = 0 THEN 0
  ELSE (IF RuleExcluded(files[1].filename) THEN 0 ELSE files[1].deletions)
       + CountedDeletions(Tail(files))

\* C9: a file is left out of the totals exactly when some configured pattern
\* matches it under that pattern's rule; every other file is summed.
C9_TotalsFollowPatternRules ==
  \A i \in 1..Len(flow) :
    (processedPRs[i] = "pr" /\ IsSome(filesSeen[i]) /\ FilesSucceeded(Val(filesSeen[i])))
      => LET files == Val(Val(filesSeen[i]).data.value.array)
         IN  /\ detailedPRs[i].additions = Some(CountedAdditions(files))
             /\ detailedPRs[i].deletions = Some(CountedDeletions(files))

\* ------------------------------------------------------------ C3
\* C3: a record whose detail fetch failed (transport error or non-2xx) is
\* returned, never discarded, with number, title, login and URL as given and
\* neither additions nor deletions set; it is not in the top-PRs ranking and
\* it is counted in the prCount of its author.
C3_DetailFailureFailSoft ==
  \A i \in 1..Len(flow) :
    (IsSome(detailSeen[i]) /\ TransportOrHttpFailure(Val(detailSeen[i])))
      => /\ processedPRs[i] = "pr"
         /\ detailedPRs[i].number = allPRs[i].number
         /\ detailedPRs[i].title = allPRs[i].title
         /\ detailedPRs[i].login = allPRs[i].login
         /\ detailedPRs[i].html_url = allPRs[i].html_url
         /\ detailedPRs[i].additions = None
         /\ detailedPRs[i].deletions = None
         /\ (Returned => \E j \in 1..Len(finalPRs) : finalPRs[j] = detailedPRs[i])
         /\ (pc = "done"
               => LET s == Val(report).summary
                      mine == { j \in 1..Len(finalPRs) : finalPRs[j].login = allPRs[i].login }
                  IN  /\ \A k \in 1..Len(s.topPRs) : s.topPRs[k].number # allPRs[i].number
                      /\ \E j \in mine : finalPRs[j].number = allPRs[i].number
                      /\ \E k \in 1..Len(s.authorStats) :
                           /\ s.authorStats[k].author = allPRs[i].login
                           /\ s.authorStats[k].prCount = Cardinality(mine))

\* The run ended with one record whose detail request met a transport error
\* and another record that was enriched and ranked.
C3_Witness ==
  /\ pc = "done"
  /\ \E i \in 1..Len(flow) :
       /\ detailSeen[i] = Some(NetError)
       /\ \E j \in 1..Len(finalPRs) : finalPRs[j].number = allPRs[i].number
  /\ Len(Val(report).summary.topPRs) >= 1

\* ------------------------------------------------------------ C5
\* The search of author a succeeded: answered, and the body has an items list.
SearchSucceeded(resp) == Answered(resp) /\ IsSome(resp.data.value.items)

ItemsReceived(a) ==
  IF SearchSucceeded(Val(searchResp[a])) THEN Val(Val(searchResp[a]).data.value.items)
  ELSE << >>

\* The items of authors 1..n, in configured order.
RECURSIVE ItemsUpTo(_)
ItemsUpTo(n) == IF n = 0 THEN << >> ELSE ItemsUpTo(n - 1) \o ItemsReceived(n)

\* C5: whatever subset of the searches fails, fetchPullRequests completes and
\* returns the concatenation, in configured-author order, of the item lists
\* of the authors whose search succeeded.
C5_SearchFailureIsolated ==
  /\ (pc = "search" /\ \A a \in 1..Len(AUTHORS) : IsSome(searchResp[a]))
       => ENABLED SearchJoin
  /\ pc # "search" /\ Len(searchResp) = Len(AUTHORS)
       => LET items == ItemsUpTo(Len(AUTHORS))
          IN  /\ Len(allPRs) = Len(items)
              /\ \A j \in 1..Len(items) :
                   /\ allPRs[j].number = items[j].number
                   /\ allPRs[j].title = items[j].title
                   /\ allPRs[j].login = items[j].user_login
                   /\ allPRs[j].html_url = items[j].html_url

\* fetchPullRequests returned the items of two authors although the search
\* of an author configured between them failed.
C5_Witness ==
  /\ pc = "details"
  /\ \E a, b, c \in 1..Len(AUTHORS) :
       /\ a < b /\ b < c
       /\ Len(ItemsReceived(a)) >= 1
       /\ ~SearchSucceeded(Val(searchResp[b]))
       /\ Len(ItemsReceived(c)) >= 1
  /\ Len(allPRs) >= 2

\* ------------------------------------------------------------ C6
RECURSIVE AdditionsOver(_, _)
AdditionsOver(prs, S) ==
  IF S = {} THEN 0
  ELSE LET j == CHOOSE x \in S : TRUE
       IN  (IF prs[j].additions = None THEN 0 ELSE prs[j].additions[1])
           + AdditionsOver(prs, S \ {j})

RECURSIVE DeletionsOver(_, _)
DeletionsOver(prs, S) ==
  IF S = {} THEN 0
  ELSE LET j == CHOOSE x \in S : TRUE
       IN  (IF prs[j].deletions = None THEN 0 ELSE prs[j].deletions[1])
           + DeletionsOver(prs, S \ {j})

\* C6: one entry per configured author; prCount is the number of records of
\* that author (0 if none), additions and deletions are the sums over those
\* records with a missing count as 0, and the total is their sum.
C6_OneEntryPerConfiguredAuthor ==
  pc = "done"
    => LET stats == Val(report).summary.authorStats
       IN  /\ Len(stats) = Len(AUTHORS)
           /\ \A a \in 1..Len(AUTHORS) :
                /\ Cardinality({ k \in 1..Len(stats) : stats[k].author = AUTHORS[a] }) = 1
                /\ \A k \in 1..Len(stats) :
                     stats[k].author = AUTHORS[a]
                       => LET mine == { j \in 1..Len(finalPRs) : finalPRs[j].login = AUTHORS[a] }
                          IN  /\ stats[k].prCount = Cardinality(mine)
                              /\ stats[k].authorAdditions = AdditionsOver(finalPRs, mine)
                              /\ stats[k].authorDeletions = DeletionsOver(finalPRs, mine)
                              /\ stats[k].authorChanges =
                                   AdditionsOver(finalPRs, mine) + DeletionsOver(finalPRs, mine)

\* An author without records has a zero entry, next to an author with
\* several records, one of them without a deletions count.
C6_Witness ==
  /\ pc = "done"
  /\ \E k \in 1..Len(Val(report).summary.authorStats) :
       LET e == Val(report).summary.authorStats[k]
       IN  e.author = "Syifatf" /\ e.prCount = 0 /\ e.authorChanges = 0
  /\ \E k \in 1..Len(Val(report).summary.authorStats) :
       LET e == Val(report).summary.authorStats[k]
       IN  /\ e.prCount >= 2
           /\ e.authorChanges > 0
           /\ \E j \in 1..Len(finalPRs) :
                finalPRs[j].login = e.author /\ finalPRs[j].deletions = None

\* ------------------------------------------------------------ C7
BothCounts(pr) == pr.additions # None /\ pr.deletions # None

TotalOf(pr) == pr.additions[1] + pr.deletions[1]

\* C7: getTopPRsByChanges(prs, 5) returns at most 5 records of the input,
\* none missing additions or deletions, each with a total at least that of
\* every record with both counts that is left out.
C7_TopPRsRanked ==
  pc = "done"
    => LET top == Val(report).summary.topPRs
       IN  /\ Len(top) <= 5
           /\ \A k \in 1..Len(top) : \E j \in 1..Len(finalPRs) : finalPRs[j] = top[k]
           /\ \A k \in 1..Len(top) : BothCounts(top[k])
           /\ \A k \in 1..Len(top) : \A j \in 1..Len(finalPRs) :
                (BothCounts(finalPRs[j]) /\ \A m \in 1..Len(top) : top[m] # finalPRs[j])
                  => TotalOf(top[k]) >= TotalOf(finalPRs[j])

\* Five records are ranked, a record with both counts is left out, and the
\* list holds a record that misses a count.
C7_Witness ==
  /\ pc = "done"
  /\ Len(Val(report).summary.topPRs) = 5
  /\ \E j \in 1..Len(finalPRs) :
       /\ BothCounts(finalPRs[j])
       /\ \A m \in 1..5 : Val(report).summary.topPRs[m] # finalPRs[j]
  /\ \E j \in 1..Len(finalPRs) : ~BothCounts(finalPRs[j])

\* ------------------------------------------------------------ C8
RepoKey(pr) == IF pr.project = None THEN <<"u","n","d","e","f","i","n","e","d">> ELSE pr.project[1]

RECURSIVE ChangesOver(_, _)
ChangesOver(prs, S) ==
  IF S = {} THEN 0
  ELSE LET j == CHOOSE x \in S : TRUE
       IN  (IF prs[j].additions = None THEN 0 ELSE prs[j].additions[1])
           + (IF prs[j].deletions = None THEN 0 ELSE prs[j].deletions[1])
           + ChangesOver(prs, S \ {j})

\* The sum of additions+deletions over the records of `repo`.
RepoTotal(prs, repo) == ChangesOver(prs, { j \in 1..Len(prs) : RepoKey(prs[j]) = repo })

\* The list with the records at positions i and j exchanged.
Exchanged(prs, i, j) == [prs EXCEPT ![i] = prs[j], ![j] = prs[i]]

\* Every entry of `top` carries the total of its repository in `prs`, and no
\* repository has two entries.
RepoEntriesRight(top, prs) ==
  /\ \A k \in 1..Len(top) : top[k].changes = Num(RepoTotal(prs, top[k].repo))
  /\ \A k, m \in 1..Len(top) : k # m => top[k].repo # top[m].repo

\* C8: the per-repository sums do not depend on the order of the records: in
\* the result for the list, and for the list with any two records exchanged,
\* every repository carries the sum over all its records (missing counts as
\* zero) and appears once.
C8_RepoSumsCommutative ==
  /\ pc = "done" => RepoEntriesRight(Val(report).summary.topRepos, finalPRs)
  /\ written = "ok"
       => \A i, j \in 1..Len(finalPRs) :
            i < j => \A top \in getTopReposByChanges(Exchanged(finalPRs, i, j), TopLimit) :
                       RepoEntriesRight(top, finalPRs)

\* ------------------------------------------------------------ C10
ConfigIndex(author) == CHOOSE a \in 1..Len(AUTHORS) : AUTHORS[a] = author

ListIndex(pr) == CHOOSE j \in 1..Len(finalPRs) : finalPRs[j] = pr

FirstEncounter(repo) ==
  CHOOSE j \in 1..Len(finalPRs) :
    RepoKey(finalPRs[j]) = repo /\ \A m \in 1..(j - 1) : RepoKey(finalPRs[m]) # repo

\* authorStats: non-increasing total, ties in configured-author order
C10_AuthorOrder ==
  pc = "done"
    => LET stats == Val(report).summary.authorStats
       IN  \A k, m \in 1..Len(stats) :
             k < m => \/ stats[k].authorChanges > stats[m].authorChanges
                      \/ /\ stats[k].authorChanges = stats[m].authorChanges
                         /\ ConfigIndex(stats[k].author) < ConfigIndex(stats[m].author)

\* topPRs: non-increasing total, ties in the order of the record list
C10_TopPROrder ==
  pc = "done"
    => LET top == Val(report).summary.topPRs
       IN  \A k, m \in 1..Len(top) :
             k < m => \/ TotalOf(top[k]) > TotalOf(top[m])
                      \/ /\ TotalOf(top[k]) = TotalOf(top[m])
                         /\ ListIndex(top[k]) < ListIndex(top[m])

\* topRepos: non-increasing total, ties in first-encounter order
C10_TopRepoOrder ==
  pc = "done"
    => LET top == Val(report).summary.topRepos
       IN  \A k, m \in 1..Len(top) :
             k < m => /\ top[k].changes.type = "number"
                      /\ top[m].changes.type = "number"
                      /\ \/ top[k].changes.n > top[m].changes.n
                         \/ /\ top[k].changes.n = top[m].changes.n
                            /\ FirstEncounter(top[k].repo) < FirstEncounter(top[m].repo)

\* C10: the three aggregate lists are ordered by non-increasing total with
\* ties in input order: configured-author order, record-list order, and the
\* order in which each repository is first encountered.
C10_AggregatesStablyOrdered ==
  /\ C10_AuthorOrder
  /\ C10_TopPROrder
  /\ C10_TopRepoOrder

\* ------------------------------------------------------------ C11
\* The stage a run is in fixes what may be in flight: enrichment flows exist
\* only once every search resolved, and exportToExcel has its argument only
\* once every enrichment flow resolved.
C11_Stages ==
  /\ Len(flow) > 0
       => /\ pc \in {"enrich", "export", "done"}
          /\ \A a \in 1..Len(AUTHORS) : IsSome(searchResp[a]) /\ IsSome(authorPRArrays[a])
          /\ Len(flow) = Len(allPRs)
  /\ (pc \in {"export", "done"} \/ IsSome(report))
       => \A i \in 1..Len(flow) : flow[i] = "done" /\ processedPRs[i] \in {"pr", "null"}

\* One step of a run: requests are issued in their stage only, a step writes
\* at most one record of the copy, the record of the flow that took the
\* step, and the report is built from resolved flows only.
C11_Step ==
  /\ (Len(flow) = 0 /\ Len(flow') > 0)
       => /\ pc = "details"
          /\ \A a \in 1..Len(AUTHORS) : IsSome(authorPRArrays[a])
  /\ Len(flow') = Len(flow)
       => \A i \in 1..Len(flow) :
            /\ (flow[i] # "files" /\ flow'[i] = "files")
                 => pc = "enrich" /\ IsSome(detailSeen'[i])
            /\ detailedPRs'[i] # detailedPRs[i]
                 => /\ flow'[i] # flow[i]
                    /\ \A j \in 1..Len(flow) :
                         j # i => /\ detailedPRs'[j] = detailedPRs[j]
                                  /\ flow'[j] = flow[j]
                                  /\ processedPRs'[j] = processedPRs[j]
  /\ report' # report
       => \A i \in 1..Len(flow) : flow[i] = "done"

\* C11: no detail or files request is issued before every search resolved,
\* exportToExcel starts only after every enrichment flow resolved, in every
\* interleaving of the responses, and each enrichment flow writes only its
\* own record.
C11_StageOrdering == []C11_Stages /\ [][C11_Step]_vars

\* The run ended after two enrichment flows ran side by side, one discarded
\* after its detail response and one that went on to its files request.
C11_Witness ==
  /\ pc = "done"
  /\ Len(flow) = 2
  /\ \E i, j \in 1..2 :
       /\ i # j
       /\ processedPRs[i] = "null"
       /\ processedPRs[j] = "pr" /\ IsSome(filesSeen[j])

\* ------------------------------------------------------------ C12
\* fetchPRDetails returned exactly the records whose flow returned a record.
SurvivorsReturned ==
  /\ Len(finalPRs) = Cardinality({ i \in 1..Len(flow) : processedPRs[i] = "pr" })
  /\ \A i \in 1..Len(flow) : processedPRs[i] = "pr" <=> InOutput(i)

\* A search, a detail or a files request of the run failed.
SomeSearchFailed == \E a \in 1..Len(searchResp) : ~SearchSucceeded(Val(searchResp[a]))

SomeDetailFailed ==
  \E i \in 1..Len(flow) : IsSome(detailSeen[i]) /\ ~Answered(Val(detailSeen[i]))

\* C12: when every request is eventually answered, then whatever requests
\* fail the run reaches exportToExcel with the surviving records and then
\* ends with the report built; a failed write of the file ends the run the
\* same way.
C12_NoFailureIsFatal ==
  /\ <>(pc = "export" /\ SurvivorsReturned)
  /\ <>[](pc = "done" /\ IsSome(report))
  /\ [](written = "error" => pc = "done" /\ IsSome(report))

\* The run ended after a search and a detail request had failed and the
\* write of the file had failed as well; the report lists the record whose
\* detail request failed.
C12_Witness ==
  /\ pc = "done"
  /\ written = "error"
  /\ SomeSearchFailed
  /\ SomeDetailFailed
  /\ Len(Val(report).rows) >= 1

\* ------------------------------------------------------------ C13
\* The positions of the input whose flow did not return null.
KeptPositions == { i \in 1..Len(flow) : processedPRs[i] # "null" }

\* The place in the output of the kept input position i when order is kept.
RankOf(i) == Cardinality({ j \in KeptPositions : j <= i })

\* Output record out is the enrichment of input record in.
SameRecord(out, in) ==
  /\ out.number = in.number
  /\ out.title = in.title
  /\ out.login = in.login
  /\ out.html_url = in.html_url

\* The list passed to fetchPRDetails is still the list fetchPullRequests
\* returned: no record of it carries a field that enrichment writes.
InputUntouched ==
  /\ allPRs = flat([a \in 1..Len(AUTHORS) |-> Val(authorPRArrays[a])])
  /\ \A i \in 1..Len(allPRs) :
       /\ allPRs[i].project = None
       /\ allPRs[i].head = None /\ allPRs[i].base = None
       /\ allPRs[i].additions = None /\ allPRs[i].deletions = None

\* C13: whatever the order in which the detail and files responses arrive,
\* fetchPRDetails returns the input records that were not discarded, each
\* once, in their input order, and leaves its input list as it was.
C13_OutputKeepsInputOrder ==
  Returned
    => /\ Len(finalPRs) = Cardinality(KeptPositions)
       /\ \A i \in KeptPositions :
            /\ SameRecord(finalPRs[RankOf(i)], allPRs[i])
            /\ finalPRs[RankOf(i)] = detailedPRs[i]
       /\ InputUntouched

\* fetchPRDetails returned two records; the first went through two requests
\* and the second through one, so either could have resolved first.
C13_Witness ==
  /\ pc = "export"
  /\ Len(allPRs) = 2
  /\ Len(finalPRs) = 2
  /\ finalPRs[1].number # finalPRs[2].number
  /\ IsSome(filesSeen[1])
  /\ filesSeen[2] = None
  /\ IsSome(finalPRs[1].additions)

\* ------------------------------------------------------------ C14
\* The sum of one column of the authorStats table.
RECURSIVE StatTotal(_, _)
StatTotal(stats, column) ==
  IF Len(stats) = 0 THEN 0
  ELSE StatTotal(SubSeq(stats, 1, Len(stats) - 1), column) + stats[Len(stats)][column]

AuthorsDistinct == \A a, b \in 1..Len(AUTHORS) : AUTHORS[a] = AUTHORS[b] => a = b

\* C14: in a run with pairwise-distinct configured authors every record of
\* the final list is counted in exactly one authorStats entry: the prCount
\* column sums to the Total Pull Requests figure, the length of the final
\* list, and the per-author additions and deletions sum to the overall
\* additions and deletions.
C14_SummaryConsistent ==
  (pc = "done" /\ AuthorsDistinct)
    => LET s == Val(report).summary
       IN  /\ s.totalPRs = Len(finalPRs)
           /\ \A j \in 1..Len(finalPRs) :
                Cardinality({ k \in 1..Len(s.authorStats) :
                                s.authorStats[k].author = finalPRs[j].login }) = 1
           /\ StatTotal(s.authorStats, "prCount") = s.totalPRs
           /\ StatTotal(s.authorStats, "authorAdditions") = s.totalAdditions
           /\ StatTotal(s.authorStats, "authorDeletions") = s.totalDeletions

====
